---- MODULE Spec2Model ----
(***************************************************************************)
(* Help-desk ticket store, solution suggestion engine and pattern analyzer  *)
(* (apps/core/models.py, apps/core/utils.py, apps/core/api_views.py).       *)
(*                                                                          *)
(* Strings are sequences of one-character strings, so that lower-casing,    *)
(* the regular-expression tokenizer, split, strip and join are computed.    *)
(* Floating-point scores are exact rationals [n |-> _, d |-> _], d > 0.     *)
(* Rows of a table are a sequence; a row's id is its index.                 *)
(***************************************************************************)
EXTENDS Integers, Sequences, FiniteSets, TLC

(***************************************************************************)
(* Characters and strings                                                   *)
(***************************************************************************)
LowerLetters == <<"a","b","c","d","e","f","g","h","i","j","k","l","m","n","o","p","q","r","s","t","u","v","w","x","y","z">>
UpperLetters == <<"A","B","C","D","E","F","G","H","I","J","K","L","M","N","O","P","Q","R","S","T","U","V","W","X","Y","Z">>
Digits == {"0","1","2","3","4","5","6","7","8","9"}

Range(s) == { s[i] : i \in DOMAIN s }

\* a sequence given element by element, as the list of its values
List(s) == s \o <<>>

Letters == Range(LowerLetters) \cup Range(UpperLetters)
WordChars == Letters \cup Digits \cup {"_"}
LowerOf == [c \in Range(UpperLetters) |->
              LowerLetters[CHOOSE i \in DOMAIN UpperLetters : UpperLetters[i] = c]] @@ <<>>

IsLetter(c) == c \in Letters

\* \w of the re module, on the characters the model uses
IsWordChar(c) == c \in WordChars

LowerChar(c) == IF c \in DOMAIN LowerOf THEN LowerOf[c] ELSE c

Lower_Unchanged(s) == s

\* str.lower()
Lower(s) == List([i \in DOMAIN s |-> LowerChar(s[i])])

\* a set as a list, in the one (arbitrary) order this build iterates it
RECURSIVE SetToSeq(_)
SetToSeq(S) ==
  IF S = {} THEN <<>>
  ELSE LET x == CHOOSE y \in S : TRUE IN <<x>> \o SetToSeq(S \ {x})

\* sep.join(list)
RECURSIVE Join(_, _)
Join(sep, list) ==
  IF list = <<>> THEN <<>>
  ELSE IF Len(list) = 1 THEN list[1]
  ELSE list[1] \o sep \o Join(sep, Tail(list))

\* f"{a} {b}"
Cat2(a, b) == a \o <<" ">> \o b
Cat3(a, b, c) == a \o <<" ">> \o b \o <<" ">> \o c

\* str.split(sep) for a one-character separator
RECURSIVE SplitFrom(_, _, _, _)
SplitFrom(s, sep, i, cur) ==
  IF i > Len(s) THEN <<cur>>
  ELSE IF s[i] = sep THEN <<cur>> \o SplitFrom(s, sep, i + 1, <<>>)
  ELSE SplitFrom(s, sep, i + 1, Append(cur, s[i]))

Split(s, sep) == SplitFrom(s, sep, 1, <<>>)

\* str.strip(): leading and trailing blanks removed
RECURSIVE Strip(_)
Strip(s) ==
  IF s = <<>> THEN s
  ELSE IF s[1] = " " THEN Strip(Tail(s))
  ELSE IF s[Len(s)] = " " THEN Strip(SubSeq(s, 1, Len(s) - 1))
  ELSE s

\* the elements of a set of numbers, ascending
Ascending(S) ==
  List([k \in 1..Cardinality(S) |->
          CHOOSE i \in S : Cardinality({ j \in S : j < i }) = k - 1])

\* the maximal runs of \w characters of s, in order
WordRuns(s) ==
  LET word == { i \in DOMAIN s : IsWordChar(s[i]) }
      starts == Ascending({ i \in word : i - 1 \notin word })
      ends == Ascending({ i \in word : i + 1 \notin word })
  IN List([k \in DOMAIN starts |-> SubSeq(s, starts[k], ends[k])])

MinWordLen == 3

\* re.findall(r'\b[a-zA-Z]{3,}\b', s): between two word boundaries lies a
\* maximal run of \w characters, which matches when it is letters only
FindWords(s) ==
  SelectSeq(WordRuns(s),
            LAMBDA w : Len(w) >= MinWordLen /\ \A i \in DOMAIN w : IsLetter(w[i]))

Engine_stop_words ==
  { <<"t","h","e">>, <<"a">>, <<"a","n">>,
    <<"a","n","d">>, <<"o","r">>, <<"b","u","t">>,
    <<"i","n">>, <<"o","n">>, <<"a","t">>,
    <<"t","o">>, <<"f","o","r">>, <<"o","f">>,
    <<"w","i","t","h">>, <<"b","y">>, <<"i","s">>,
    <<"a","r","e">>, <<"w","a","s">>, <<"w","e","r","e">>,
    <<"b","e">>, <<"b","e","e","n">>, <<"h","a","v","e">>,
    <<"h","a","s">>, <<"h","a","d">>, <<"d","o">>,
    <<"d","o","e","s">>, <<"d","i","d">>, <<"w","i","l","l">>,
    <<"w","o","u","l","d">>, <<"c","o","u","l","d">>, <<"s","h","o","u","l","d">>,
    <<"c","a","n">>, <<"c","a","n","n","o","t">>, <<"c","a","n","t">>,
    <<"w","o","n","t">>, <<"d","o","n","t">>, <<"d","o","e","s","n","t">>,
    <<"d","i","d","n","t">>, <<"i","s","n","t">>, <<"a","r","e","n","t">>,
    <<"w","a","s","n","t">>, <<"w","e","r","e","n","t">>, <<"h","a","s","n","t">>,
    <<"h","a","v","e","n","t">>, <<"h","a","d","n","t">>, <<"i">>,
    <<"y","o","u">>, <<"h","e">>, <<"s","h","e">>,
    <<"i","t">>, <<"w","e">>, <<"t","h","e","y">>,
    <<"m","e">>, <<"h","i","m">>, <<"h","e","r">>,
    <<"u","s">>, <<"t","h","e","m">> }

Analyzer_stop_words ==
  { <<"t","h","e">>, <<"a">>, <<"a","n">>,
    <<"a","n","d">>, <<"o","r">>, <<"b","u","t">>,
    <<"i","n">>, <<"o","n">>, <<"a","t">>,
    <<"t","o">>, <<"f","o","r">>, <<"o","f">>,
    <<"w","i","t","h">>, <<"b","y">>, <<"i","s">>,
    <<"a","r","e">>, <<"w","a","s">>, <<"w","e","r","e">>,
    <<"b","e">>, <<"b","e","e","n">>, <<"h","a","v","e">>,
    <<"h","a","s">>, <<"h","a","d">>, <<"d","o">>,
    <<"d","o","e","s">>, <<"d","i","d">>, <<"w","i","l","l">>,
    <<"w","o","u","l","d">>, <<"c","o","u","l","d">>, <<"s","h","o","u","l","d">> }

Engine_extract_keywords_FilterFirst(text) ==
  { Lower(w) : w \in { v \in Range(FindWords(text)) : v \notin Engine_stop_words } }

\* SolutionSuggestionEngine.extract_keywords: the unique keywords of a text
Engine_extract_keywords(text) ==
  { w \in Range(FindWords(Lower(text))) : w \notin Engine_stop_words }

\* PatternAnalyzer.extract_keywords
Analyzer_extract_keywords(text) ==
  { w \in Range(FindWords(Lower(text))) : w \notin Analyzer_stop_words }

(***************************************************************************)
(* Exact rationals for the float scores                                     *)
(***************************************************************************)
RECURSIVE Gcd(_, _)
Gcd(a, b) == IF b = 0 THEN a ELSE Gcd(b, a % b)

\* what a division by zero leaves in the place of a number
ZeroDivisionError == [n |-> 0, d |-> 0]

\* n/d in lowest terms, d positive; a division by zero carries through the
\* arithmetic that uses it
Rat(n, d) ==
  IF d = 0 THEN ZeroDivisionError
  ELSE LET g == Gcd(IF n < 0 THEN -n ELSE n, d)
       IN [n |-> n \div g, d |-> d \div g]
RLeq(a, b) == a.n * b.d <= b.n * a.d
RLess(a, b) == a.n * b.d < b.n * a.d
RAdd(a, b) == Rat(a.n * b.d + b.n * a.d, a.d * b.d)
RMul(a, b) == Rat(a.n * b.n, a.d * b.d)
\* min(a, b) of Python: b only when b < a
RMin(a, b) == IF a.d = 0 \/ b.d = 0 THEN ZeroDivisionError
             ELSE IF RLess(b, a) THEN b ELSE a

(***************************************************************************)
(* The store.  tickets, solutions, applications (TicketSolution) and        *)
(* patterns (TicketPattern) are the tables, a row's id being its index.     *)
(***************************************************************************)
VARIABLES
  tickets,       \* Ticket rows: title, description, category, created_by, status, day
  solutions,     \* Solution rows
  applications,  \* TicketSolution rows: ticket, solution, was_successful
  patterns,      \* TicketPattern rows
  now,           \* timezone.now(), a logical clock
  runs,          \* the analyzer runs in progress: pc, position, result of the last get
  last           \* the last completed call and what it returned

vars == <<tickets, solutions, applications, patterns, now, runs, last>>

\* None, for ids, counts and times (all of them >= 0)
None == -1

\* seq[:n]
Take(seq, n) == SubSeq(seq, 1, IF Len(seq) < n THEN Len(seq) ELSE n)

Reverse(seq) == List([i \in DOMAIN seq |-> seq[Len(seq) + 1 - i]])

RECURSIVE Flatten(_)
Flatten(seqs) == IF seqs = <<>> THEN <<>> ELSE Head(seqs) \o Flatten(Tail(seqs))

\* sorted(seq, ...) and ORDER BY: a stable sort, Before(x, y) when x's key
\* is strictly ahead of y's; equal keys keep the order they came in
StableSort(list, Before(_, _)) ==
  LET seq == List(list)
      ahead == [i \in DOMAIN seq |->
                  Cardinality({ j \in DOMAIN seq :
                                  \/ Before(seq[j], seq[i])
                                  \/ ~Before(seq[i], seq[j]) /\ j < i })]
      place == List(ahead)
  IN List([k \in DOMAIN seq |-> seq[CHOOSE i \in DOMAIN seq : place[i] = k - 1]])

\* the ids of a table in the order an unordered query returns them, which the
\* database leaves open: by ascending or by descending id
RowIds(table, asc) ==
  LET ids == List([i \in 1..Len(table) |-> i]) IN IF asc THEN ids ELSE Reverse(ids)

\* Solution.Meta.ordering = ['-times_successful', '-created_at']
SolutionMetaBefore(a, b) ==
  \/ solutions[a].times_successful > solutions[b].times_successful
  \/ /\ solutions[a].times_successful = solutions[b].times_successful
     /\ a > b

\* TicketPattern.Meta.ordering = ['-confidence_score', '-times_helpful']
PatternMetaBefore(a, b) ==
  \/ patterns[a].confidence_score > patterns[b].confidence_score
  \/ /\ patterns[a].confidence_score = patterns[b].confidence_score
     /\ patterns[a].times_helpful > patterns[b].times_helpful

\* Solution.success_rate without the test of times_suggested
success_rate_Unguarded(s) ==
  Rat(solutions[s].times_successful * 100, solutions[s].times_suggested)

\* Solution.success_rate, a percentage
success_rate(s) ==
  IF solutions[s].times_suggested = 0 THEN Rat(0, 1)
  ELSE Rat(solutions[s].times_successful * 100, solutions[s].times_suggested)

Max(a, b) == IF a > b THEN a ELSE b

(***************************************************************************)
(* SolutionSuggestionEngine                                                 *)
(***************************************************************************)
CategoryTop == 5
KeywordTop == 5
PatternTop == 3
HistoricalTop == 3
SuggestionTop == 10
PatternMatchMinConfidence == 6000   \* confidence_score__gte=60, in hundredths
MinCommonKeywords == 2

ticket_text(t) == Cat2(tickets[t].title, tickets[t].description)

\* descending by score, as sorted(..., key=score, reverse=True)
ScoreBefore(a, b) == RLess(b.confidence_score, a.confidence_score)

\* Strategy 1 with the slice [:1]
category_solutions_TopOne(t, asc) ==
  LET rows == SelectSeq(RowIds(solutions, asc),
                LAMBDA s : /\ solutions[s].category = tickets[t].category
                           /\ solutions[s].is_active)
      Before(a, b) ==
        \/ solutions[a].times_successful > solutions[b].times_successful
        \/ /\ solutions[a].times_successful = solutions[b].times_successful
           /\ solutions[a].times_suggested > solutions[b].times_suggested
  IN Take(StableSort(rows, Before), 1)

\* Strategy 1: Solution.objects.filter(category=, is_active=True)
\*             .order_by('-times_successful', '-times_suggested')[:5]
category_solutions(t, asc) ==
  LET rows == SelectSeq(RowIds(solutions, asc),
                LAMBDA s : /\ solutions[s].category = tickets[t].category
                           /\ solutions[s].is_active)
      Before(a, b) ==
        \/ solutions[a].times_successful > solutions[b].times_successful
        \/ /\ solutions[a].times_successful = solutions[b].times_successful
           /\ solutions[a].times_suggested > solutions[b].times_suggested
  IN Take(StableSort(rows, Before), CategoryTop)

category_confidence_NoBase(s) ==
  RMul(RMul(success_rate(s), Rat(1, 100)), Rat(3, 10))

\* 0.7 + (float(solution.success_rate) / 100) * 0.3
category_confidence(s) ==
  RAdd(Rat(7, 10), RMul(RMul(success_rate(s), Rat(1, 100)), Rat(3, 10)))

category_suggestions(t, asc) ==
  IF tickets[t].category = None THEN <<>>
  ELSE LET rows == category_solutions(t, asc)
       IN List([i \in DOMAIN rows |->
                  [solution |-> rows[i],
                   confidence_score |-> category_confidence(rows[i]),
                   match_reason |-> <<"Same category", tickets[t].category>>,
                   suggested_by |-> "category_match"]])

solution_keywords(s) ==
  Engine_extract_keywords(
    Cat3(solutions[s].title, solutions[s].description, solutions[s].keywords))

\* min(0.95, overlap_ratio * 0.7 + success_bonus)
keyword_confidence(s, ncommon, nticket, nsolution) ==
  LET overlap_ratio == Rat(ncommon, Max(nticket, nsolution))
      success_bonus == RMul(RMul(success_rate(s), Rat(1, 100)), Rat(3, 10))
  IN RMin(Rat(95, 100), RAdd(RMul(overlap_ratio, Rat(7, 10)), success_bonus))

\* Strategy 2
find_keyword_matches(ticket_keywords) ==
  LET active == SelectSeq(RowIds(solutions, TRUE), LAMBDA s : solutions[s].is_active)
      rows == StableSort(active, SolutionMetaBefore)
      scored ==
        List([i \in DOMAIN rows |->
                LET kws == solution_keywords(rows[i])
                    common == ticket_keywords \cap kws
                IN [solution |-> rows[i],
                    confidence_score |->
                      IF common = {} THEN Rat(0, 1)
                      ELSE keyword_confidence(rows[i], Cardinality(common),
                             Cardinality(ticket_keywords), Cardinality(kws)),
                    match_reason |-> <<"Keyword match", common>>,
                    suggested_by |-> "keyword_match"]])
      matches == SelectSeq(scored, LAMBDA m : m.match_reason[2] # {})
  IN Take(StableSort(matches, ScoreBefore), KeywordTop)

\* pattern.matching_keywords.split(','), each stripped and lower-cased
pattern_keywords(p) ==
  IF patterns[p].matching_keywords = <<>> THEN {}
  ELSE { Lower(Strip(kw)) : kw \in Range(Split(patterns[p].matching_keywords, ",")) }

\* min(0.95, confidence_score / 100 * 0.8, plus 0.2 on a category match)
pattern_confidence(p, category_match) ==
  LET base == Rat(patterns[p].confidence_score * 8, 100000)
      confidence == IF category_match THEN RAdd(base, Rat(2, 10)) ELSE base
  IN RMin(Rat(95, 100), confidence)

category_match_Unguarded(p, category) == patterns[p].category = category

\* pattern.category == category if pattern.category else False
category_match(p, category) ==
  IF patterns[p].category # None THEN patterns[p].category = category ELSE FALSE

\* Strategy 3
find_pattern_matches(ticket_keywords, category, asc) ==
  LET live == SelectSeq(RowIds(patterns, asc),
                LAMBDA p : /\ patterns[p].is_active
                           /\ patterns[p].confidence_score >= PatternMatchMinConfidence)
      rows == StableSort(live, PatternMetaBefore)
      hits == SelectSeq(rows,
                LAMBDA p : \/ ticket_keywords \cap pattern_keywords(p) # {}
                           \/ category_match(p, category))
      of(p) ==
        LET sols == StableSort(SetToSeq(patterns[p].suggested_solutions), SolutionMetaBefore)
            confidence == pattern_confidence(p, category_match(p, category))
        IN List([i \in DOMAIN sols |->
                   [solution |-> sols[i],
                    confidence_score |-> confidence,
                    match_reason |-> <<"Pattern match", patterns[p].pattern_type>>,
                    suggested_by |-> "pattern_match"]])
      matches == Flatten(List([i \in DOMAIN hits |-> of(hits[i])]))
  IN Take(StableSort(matches, ScoreBefore), PatternTop)

\* min(0.85, overlap_ratio * 0.6 + 0.2)
historical_confidence(ncommon, nticket, nhistorical) ==
  LET overlap_ratio == Rat(ncommon, Max(nticket, nhistorical))
  IN RMin(Rat(85, 100), RAdd(RMul(overlap_ratio, Rat(6, 10)), Rat(2, 10)))

\* the merge without the comparison of scores: the last candidate wins
RECURSIVE KeepBest_LastWins(_, _)
KeepBest_LastWins(seq, unique) ==
  IF seq = <<>> THEN unique
  ELSE LET x == Head(seq)
           at == { j \in DOMAIN unique : unique[j].solution = x.solution }
       IN IF at = {} THEN KeepBest_LastWins(Tail(seq), Append(unique, x))
          ELSE LET j == CHOOSE k \in at : TRUE
               IN KeepBest_LastWins(Tail(seq), [unique EXCEPT ![j] = x])

\* for x in seq: keep x when its solution is new, replace the kept entry when
\* x scores strictly higher (a dict keeps the position of the first insertion)
RECURSIVE KeepBest(_, _)
KeepBest(seq, unique) ==
  IF seq = <<>> THEN unique
  ELSE LET x == Head(seq)
           at == { j \in DOMAIN unique : unique[j].solution = x.solution }
       IN IF at = {} THEN KeepBest(Tail(seq), Append(unique, x))
          ELSE LET j == CHOOSE k \in at : TRUE
               IN IF RLess(unique[j].confidence_score, x.confidence_score)
                    THEN KeepBest(Tail(seq), [unique EXCEPT ![j] = x])
                    ELSE KeepBest(Tail(seq), unique)

\* Strategy 4
find_historical_matches(ticket_keywords, asc) ==
  LET successful_applications ==
        SelectSeq(RowIds(applications, asc),
                  LAMBDA a : applications[a].was_successful = "True")
      scored ==
        List([i \in DOMAIN successful_applications |->
                LET a == successful_applications[i]
                    historical_keywords ==
                      Engine_extract_keywords(ticket_text(applications[a].ticket))
                    common == ticket_keywords \cap historical_keywords
                IN [solution |-> applications[a].solution,
                    common |-> Cardinality(common),
                    confidence_score |->
                      IF common = {} THEN Rat(0, 1)
                      ELSE historical_confidence(Cardinality(common),
                             Cardinality(ticket_keywords), Cardinality(historical_keywords)),
                    match_reason |-> <<"Historical success", applications[a].ticket>>,
                    suggested_by |-> "historical_match"]])
      hits == SelectSeq(scored, LAMBDA m : m.common >= MinCommonKeywords)
      matches == List([i \in DOMAIN hits |->
                         [solution |-> hits[i].solution,
                          confidence_score |-> hits[i].confidence_score,
                          match_reason |-> hits[i].match_reason,
                          suggested_by |-> hits[i].suggested_by]])
      unique_matches == KeepBest(matches, <<>>)
  IN Take(StableSort(unique_matches, ScoreBefore), HistoricalTop)

\* the candidates of the four strategies, in the order they are appended
strategy_suggestions(t, asc) ==
  LET ticket_keywords == Engine_extract_keywords(ticket_text(t))
  IN category_suggestions(t, asc)
       \o find_keyword_matches(ticket_keywords)
       \o find_pattern_matches(ticket_keywords, tickets[t].category, asc)
       \o find_historical_matches(ticket_keywords, asc)

unique_suggestions(suggestions) == KeepBest(suggestions, <<>>)

\* suggest_solutions without the slice [:10]
suggest_solutions_Uncut(t, asc) ==
  StableSort(unique_suggestions(strategy_suggestions(t, asc)), ScoreBefore)

\* suggest_solutions without the sort
suggest_solutions_Unsorted(t, asc) ==
  Take(unique_suggestions(strategy_suggestions(t, asc)), SuggestionTop)

\* SolutionSuggestionEngine.suggest_solutions
suggest_solutions(t, asc) ==
  Take(StableSort(unique_suggestions(strategy_suggestions(t, asc)), ScoreBefore),
       SuggestionTop)

(***************************************************************************)
(* PatternAnalyzer                                                          *)
(***************************************************************************)
min_pattern_confidence == 70
min_occurrences == 3
ConfidenceCap == 95
UserConfidenceCap == 90
CategoryTopKeywords == 10
UserTopKeywords == 5
TimeTopCategories == 3
MinKeywordCount == 2
MinCommonSolutionTickets == 2

\* the Category table (its maintenance is not modelled)
categories ==
  << [name |-> <<"H","a","r","d","w","a","r","e">>],
     [name |-> <<"N","e","t","w","o","r","k">>],
     [name |-> <<"S","o","f","t","w","a","r","e">>],
     [name |-> <<"E","m","a","i","l">>] >>

DayNames ==
  << <<"M","o","n","d","a","y">>, <<"T","u","e","s","d","a","y">>,
     <<"W","e","d","n","e","s","d","a","y">>, <<"T","h","u","r","s","d","a","y">>,
     <<"F","r","i","d","a","y">>, <<"S","a","t","u","r","d","a","y">>,
     <<"S","u","n","d","a","y">> >>

\* created_at.strftime('%A'), created_at counted in days
day_of_week(t) == DayNames[(tickets[t].created_at % 7) + 1]

DigitChars == <<"0","1","2","3","4","5","6","7","8","9">>

\* str(n) for n >= 0
RECURSIVE Str(_)
Str(n) == IF n < 10 THEN <<DigitChars[n + 1]>>
          ELSE Str(n \div 10) \o <<DigitChars[(n % 10) + 1]>>

\* a float percentage as the DecimalField(decimal_places=2) keeps it, in
\* hundredths, rounded half to even
ToHundredths(r) ==
  LET q == (r.n * 100) \div r.d
      rem == (r.n * 100) % r.d
  IN IF 2 * rem < r.d THEN q
     ELSE IF 2 * rem > r.d THEN q + 1
     ELSE IF q % 2 = 0 THEN q ELSE q + 1

\* Ticket.objects.filter(created_at__gte=now - days), Meta.ordering -created_at
recent_tickets(days) ==
  LET rows == SelectSeq(RowIds(tickets, FALSE),
                        LAMBDA t : tickets[t].created_at >= now - days)
  IN StableSort(rows, LAMBDA a, b : tickets[a].created_at > tickets[b].created_at)

\* the distinct elements of a list, in the order of their first occurrence
RECURSIVE Distinct(_)
Distinct(seq) ==
  IF seq = <<>> THEN <<>>
  ELSE LET front == Distinct(SubSeq(seq, 1, Len(seq) - 1))
           x == seq[Len(seq)]
       IN IF x \in Range(front) THEN front ELSE Append(front, x)

Occurrences(seq, x) == Cardinality({ i \in DOMAIN seq : seq[i] = x })

\* Counter(seq).most_common(n): (element, count), most frequent first,
\* equal counts in the order of first occurrence
most_common(seq, n) ==
  LET elems == Distinct(seq)
      pairs == List([i \in DOMAIN elems |->
                       [elem |-> elems[i], count |-> Occurrences(seq, elems[i])]])
  IN Take(StableSort(pairs, LAMBDA a, b : a.count > b.count), n)

\* the keywords the analyzer counts in a text: extract_keywords returns each
\* keyword of the text once
counted_keywords(text) == SetToSeq(Analyzer_extract_keywords(text))

\* [kw for kw, count in Counter(extract_keywords(all_text)).most_common(n)
\*  if count >= 2], all_text the texts of ticket_list joined by blanks
top_keywords(ticket_list, n) ==
  LET all_text == Join(<<" ">>, List([i \in DOMAIN ticket_list |->
                                        ticket_text(ticket_list[i])]))
      common == SelectSeq(most_common(counted_keywords(all_text), n),
                          LAMBDA p : p.count >= MinKeywordCount)
  IN List([i \in DOMAIN common |-> common[i].elem])

\* PatternAnalyzer.find_common_solutions
find_common_solutions(ticket_list) ==
  LET among == Range(ticket_list)
      solution_counts(s) ==
        Cardinality({ a \in DOMAIN applications :
                        /\ applications[a].solution = s
                        /\ applications[a].was_successful = "True"
                        /\ applications[a].ticket \in among })
  IN { s \in DOMAIN solutions : solution_counts(s) >= MinCommonSolutionTickets }

resolved_count(ticket_list) ==
  Cardinality({ t \in Range(ticket_list) : tickets[t].status = "RESOLVED" })

\* One get_or_create call of the analyzer: the lookup, the defaults of a new
\* row, and whether the branch of a found row updates it.
Upsert(type, by_category, key, category, confidence, matched, sols, updates) ==
  [pattern_type |-> type, by_category |-> by_category, matching_keywords |-> key,
   category |-> category, confidence |-> confidence, times_matched |-> matched,
   solutions |-> sols, updates |-> updates]

\* min(95, (len(ticket_list) / tickets.count()) * 100
\*          + (len(resolved_tickets) / len(ticket_list)) * 30)
keyword_pattern_confidence(n, total, nresolved) ==
  RMin(Rat(ConfidenceCap, 1), RAdd(Rat(n * 100, total), Rat(nresolved * 30, n)))

keyword_group_qualifies_Always(g) == TRUE

keyword_group_qualifies_MoreThanMin(g) ==
  /\ Len(g.ticket_list) > min_occurrences
  /\ RLeq(Rat(min_pattern_confidence, 1), g.confidence)

\* the gate of a keyword group
keyword_group_qualifies(g) ==
  /\ Len(g.ticket_list) >= min_occurrences
  /\ RLeq(Rat(min_pattern_confidence, 1), g.confidence)

\* analyze_keyword_patterns: the get_or_create calls it makes, in order
keyword_upserts(window) ==
  LET kws == List([i \in DOMAIN window |->
                     Analyzer_extract_keywords(ticket_text(window[i]))])
      keyword_freq ==
        Distinct(Flatten(List([i \in DOMAIN window |-> SetToSeq(kws[i])])))
      groups ==
        List([k \in DOMAIN keyword_freq |->
                LET at == SelectSeq(List([i \in DOMAIN window |-> i]),
                                    LAMBDA i : keyword_freq[k] \in kws[i])
                    ticket_list == List([j \in DOMAIN at |-> window[at[j]]])
                IN [keyword |-> keyword_freq[k],
                    ticket_list |-> ticket_list,
                    confidence |->
                      keyword_pattern_confidence(Len(ticket_list), Len(window),
                                                 resolved_count(ticket_list))]])
      found == SelectSeq(groups, keyword_group_qualifies)
  IN List([i \in DOMAIN found |->
             Upsert("KEYWORD", FALSE, found[i].keyword, None, found[i].confidence,
                    Len(found[i].ticket_list),
                    find_common_solutions(found[i].ticket_list), TRUE)])

\* min(95, (len(resolved_tickets) / len(ticket_list)) * 100)
category_pattern_confidence(n, nresolved) ==
  RMin(Rat(ConfidenceCap, 1), Rat(nresolved * 100, n))

\* the gates of a category group
category_group_qualifies(g) ==
  /\ Len(g.ticket_list) >= min_occurrences
  /\ g.top_keywords # <<>>
  /\ RLeq(Rat(min_pattern_confidence, 1), g.confidence)

\* analyze_category_patterns
category_upserts(window) ==
  LET with_category == SelectSeq(window, LAMBDA t : tickets[t].category # None)
      cats == Distinct(List([i \in DOMAIN with_category |->
                               tickets[with_category[i]].category]))
      groups ==
        List([k \in DOMAIN cats |->
                LET ticket_list ==
                      SelectSeq(with_category, LAMBDA t : tickets[t].category = cats[k])
                IN [category |-> cats[k],
                    ticket_list |-> ticket_list,
                    top_keywords |->
                      IF Len(ticket_list) >= min_occurrences
                        THEN top_keywords(ticket_list, CategoryTopKeywords) ELSE <<>>,
                    confidence |->
                      category_pattern_confidence(Len(ticket_list),
                                                  resolved_count(ticket_list))]])
      found == SelectSeq(groups, category_group_qualifies)
  IN List([i \in DOMAIN found |->
             Upsert("CATEGORY", TRUE, Join(<<",">>, found[i].top_keywords),
                    found[i].category, found[i].confidence, Len(found[i].ticket_list),
                    find_common_solutions(found[i].ticket_list), FALSE)])

\* len(ticket_list) > (tickets.count() / 7) * 1.5
busy_day(n, total) == 14 * n > 3 * total

\* min(95, (count / len(ticket_list)) * 100)
time_pattern_confidence(count, n) == RMin(Rat(ConfidenceCap, 1), Rat(count * 100, n))

\* analyze_time_patterns
time_upserts(window) ==
  LET dow == List([i \in DOMAIN window |-> day_of_week(window[i])])
      days == Distinct(dow)
      of(day) ==
        LET ticket_list == SelectSeq(window, LAMBDA t : day_of_week(t) = day)
            with_category == SelectSeq(ticket_list, LAMBDA t : tickets[t].category # None)
            names == List([i \in DOMAIN with_category |->
                             categories[tickets[with_category[i]].category].name])
            frequent == SelectSeq(most_common(names, TimeTopCategories),
                                  LAMBDA p : p.count >= min_occurrences)
        IN IF busy_day(Len(ticket_list), Len(window))
             THEN List([i \in DOMAIN frequent |->
                          Upsert("TIME", FALSE, day \o <<"_">> \o frequent[i].elem, None,
                                 time_pattern_confidence(frequent[i].count, Len(ticket_list)),
                                 frequent[i].count, {}, FALSE)])
             ELSE <<>>
  IN Flatten(List([i \in DOMAIN days |-> of(days[i])]))

\* len(ticket_list) >= max(3, (tickets.count() / len(user_patterns)) * 2)
busy_user(n, total, nusers) == n >= min_occurrences /\ n * nusers >= 2 * total

\* min(90, (len(ticket_list) / tickets.count()) * 100 + 30)
user_pattern_confidence(n, total) ==
  RMin(Rat(UserConfidenceCap, 1), RAdd(Rat(n * 100, total), Rat(30, 1)))

\* analyze_user_patterns
user_upserts(window) ==
  LET users == Distinct(List([i \in DOMAIN window |-> tickets[window[i]].created_by]))
      groups ==
        List([k \in DOMAIN users |->
                LET ticket_list ==
                      SelectSeq(window, LAMBDA t : tickets[t].created_by = users[k])
                    busy == busy_user(Len(ticket_list), Len(window), Len(users))
                IN [user |-> users[k],
                    ticket_list |-> ticket_list,
                    busy |-> busy,
                    top_keywords |->
                      IF busy THEN top_keywords(ticket_list, UserTopKeywords) ELSE <<>>]])
      found == SelectSeq(groups, LAMBDA g : g.busy /\ g.top_keywords # <<>>)
  IN List([i \in DOMAIN found |->
             Upsert("USER", FALSE,
                    <<"u","s","e","r","_">> \o Str(found[i].user) \o <<"_">>
                      \o found[i].top_keywords[1],
                    None,
                    user_pattern_confidence(Len(found[i].ticket_list), Len(window)),
                    Len(found[i].ticket_list), {}, FALSE)])

\* analyze_recent_tickets: the four analyses in turn
analysis_upserts(days) ==
  LET window == recent_tickets(days)
  IN keyword_upserts(window) \o category_upserts(window)
       \o time_upserts(window) \o user_upserts(window)

\* create() in the place of get_or_create(): no row is ever found
matching_NothingFound(pats, u) == {}

\* the rows the get of a get_or_create matches
matching(pats, u) ==
  { p \in DOMAIN pats :
      /\ pats[p].pattern_type = u.pattern_type
      /\ IF u.by_category THEN pats[p].category = u.category
         ELSE pats[p].matching_keywords = u.matching_keywords }

\* TicketPattern.objects.create(lookup and defaults), and, where the created
\* branch does so, suggested_solutions.set(common_solutions)
new_pattern(u, at) ==
  [pattern_type |-> u.pattern_type, matching_keywords |-> u.matching_keywords,
   category |-> u.category, suggested_solutions |-> u.solutions,
   confidence_score |-> ToHundredths(u.confidence), times_matched |-> u.times_matched,
   times_helpful |-> 0, last_seen |-> at, is_active |-> TRUE]

updated_pattern_Reattaching(row, u, at) ==
  IF u.updates
    THEN [row EXCEPT !.times_matched = u.times_matched,
                     !.confidence_score = ToHundredths(u.confidence),
                     !.last_seen = at,
                     !.suggested_solutions = u.solutions]
    ELSE row

\* the else branch of analyze_keyword_patterns: the found row is refreshed
updated_pattern(row, u, at) ==
  IF u.updates
    THEN [row EXCEPT !.times_matched = u.times_matched,
                     !.confidence_score = ToHundredths(u.confidence),
                     !.last_seen = at]
    ELSE row

(***************************************************************************)
(* Operations on the store                                                  *)
(***************************************************************************)
\* a Ticket row as Ticket.objects.create fills it (status defaults to OPEN)
new_ticket(text, category, user, status, at) ==
  [title |-> text.title, description |-> text.description, category |-> category,
   created_by |-> user, status |-> status, created_at |-> at,
   resolved_at |-> None, closed_at |-> None, resolution_time_minutes |-> None]

\* get_or_create of every upsert in turn, as one uninterrupted run; a get
\* that finds several rows raises MultipleObjectsReturned and ends the run
RECURSIVE run_upserts(_, _, _, _)
run_upserts(pats, us, at, created) ==
  IF us = <<>> THEN [patterns |-> pats, patterns_found |-> created, error |-> FALSE]
  ELSE LET u == Head(us)
           m == matching(pats, u)
       IN IF Cardinality(m) > 1
            THEN [patterns |-> pats, patterns_found |-> created, error |-> TRUE]
          ELSE IF m = {}
            THEN run_upserts(Append(pats, new_pattern(u, at)), Tail(us), at, created + 1)
          ELSE LET p == CHOOSE q \in m : TRUE
               IN run_upserts([pats EXCEPT ![p] = updated_pattern(pats[p], u, at)],
                              Tail(us), at, created)

\* the last completed call: its arguments and what it returned
NoCall == [op |-> "none", args |-> <<>>, result |-> <<>>, window |-> {},
           before |-> 0, again |-> FALSE]

\* PatternAnalyzer.analyze_recent_tickets(days), run alone.  last.window is
\* the set of tickets analysed, last.before the number of pattern rows the
\* run found, and last.again tells that the call before it was a run over
\* the same tickets.
Analyze(days) ==
  LET window == recent_tickets(days)
      r == run_upserts(patterns, analysis_upserts(days), now, 0)
  IN /\ patterns' = r.patterns
     /\ last' = [op |-> "analyze",
                 args |-> <<days>>,
                 result |-> IF r.error THEN <<"MultipleObjectsReturned">>
                            ELSE <<r.patterns_found, Len(window)>>,
                 window |-> Range(window),
                 before |-> Len(patterns),
                 again |-> last.op = "analyze" /\ last.window = Range(window)]
     /\ UNCHANGED <<tickets, solutions, applications, now, runs>>

Suggest_Counting(t, asc) ==
  /\ last' = [NoCall EXCEPT !.op = "suggest", !.args = <<t, asc>>,
                            !.result = suggest_solutions(t, asc)]
  /\ solutions' = [s \in DOMAIN solutions |->
                     IF s \in { r.solution : r \in Range(suggest_solutions(t, asc)) }
                       THEN [solutions[s] EXCEPT !.times_suggested = @ + 1]
                       ELSE solutions[s]]
  /\ UNCHANGED <<tickets, applications, patterns, now, runs>>

\* TicketViewSet.suggest_solutions: the engine's list for ticket t
Suggest(t, asc) ==
  /\ last' = [NoCall EXCEPT !.op = "suggest", !.args = <<t, asc>>,
                            !.result = suggest_solutions(t, asc)]
  /\ UNCHANGED <<tickets, solutions, applications, patterns, now, runs>>

(***************************************************************************)
(* Bounds and inputs                                                        *)
(***************************************************************************)
MaxWindow == 5
Today == 9
AnalyzeDays == {1, 30}

Text1 == [title |-> <<"P","r","i","n","t","e","r"," ","o","f","f","l","i","n","e">>,
          description |-> <<"t","h","e"," ","P","C"," ","i","s"," ","o","f","f">>]
Text2 == [title |-> <<"N","e","t","w","o","r","k"," ","d","o","w","n">>,
          description |-> <<"c","a","n","t"," ","p","r","i","n","t">>]

resolved(row) ==
  [row EXCEPT !.status = "RESOLVED", !.resolved_at = row.created_at,
              !.resolution_time_minutes = 0]

\* the kinds of ticket a window is drawn from: of today, of yesterday and of
\* the same day a week ago
TicketProfiles ==
  << new_ticket(Text1, 1, 1, "OPEN", Today),
     resolved(new_ticket(Text1, 1, 1, "OPEN", Today)),
     new_ticket(Text2, 2, 2, "OPEN", Today),
     resolved(new_ticket(Text2, None, 1, "OPEN", Today)),
     new_ticket(Text1, 1, 2, "OPEN", Today - 7),
     resolved(new_ticket(Text2, 2, 2, "OPEN", Today - 1)) >>

\* the ticket tables of at most n rows over the profiles, rows of one profile
\* adjacent
Windows(n) ==
  LET idx == UNION { [1..k -> DOMAIN TicketProfiles] : k \in 0..n }
      sorted == { s \in idx : \A i \in 1..(Len(s) - 1) : s[i] <= s[i + 1] }
  IN { [i \in DOMAIN s |-> TicketProfiles[s[i]]] : s \in sorted }

Solution1 ==
  [title |-> <<"R","e","s","t","a","r","t"," ","p","r","i","n","t","e","r">>,
   description |-> <<>>, keywords |-> <<"o","f","f","l","i","n","e",","," ","j","a","m">>,
   category |-> 1, times_suggested |-> 2, times_successful |-> 2, is_active |-> TRUE]

application(t, s, ok) == [ticket |-> t, solution |-> s, was_successful |-> ok]

\* a ticket that names no keyword
NoText == [title |-> <<"P","C">>, description |-> <<>>]

\* six tickets of today: four created by user 1, one each by users 2 and 3
BusyUserWindows ==
  { [i \in 1..6 |->
       new_ticket(IF i <= 4 THEN text ELSE Text2, category,
                  IF i <= 4 THEN 1 ELSE i - 3, status, Today)] :
      text \in {Text1, Text2}, category \in {1, None}, status \in {"OPEN", "RESOLVED"} }

\* tickets of today, three in each of the first k categories
BusyDayWindows ==
  { [i \in 1..(3 * k) |-> new_ticket(NoText, ((i - 1) \div 3) + 1, 1, "OPEN", Today)] :
      k \in DOMAIN categories }

\* a window of tickets, analysed any number of times
InitWindow ==
  /\ tickets \in Windows(MaxWindow) \cup BusyUserWindows \cup BusyDayWindows
  /\ solutions = <<Solution1>>
  /\ applications = SelectSeq(<<application(1, 1, "True"), application(2, 1, "True")>>,
                              LAMBDA a : a.ticket <= Len(tickets))
  /\ patterns = <<>>
  /\ now = Today
  /\ runs = <<>>
  /\ last = NoCall

NextWindow == \E days \in AnalyzeDays : Analyze(days)

SpecWindow == InitWindow /\ [][NextWindow]_vars

(***************************************************************************)
(* Claims about the pattern analyzer                                        *)
(***************************************************************************)
Analyzed == last.op = "analyze" /\ Len(last.result) = 2

\* the (pattern kind, distinguishing key) of a pattern row
PatternKey(row) ==
  IF row.pattern_type = "CATEGORY" THEN <<row.pattern_type, row.category>>
  ELSE <<row.pattern_type, row.matching_keywords>>

NoDuplicatePatterns ==
  \A p, q \in DOMAIN patterns : PatternKey(patterns[p]) = PatternKey(patterns[q]) => p = q

\* C1: every pattern row the analyzer persists, of any kind, comes from a
\* group of at least 3 occurrences and has a confidence of at least 70.
C1_EveryPatternClearsBothGates ==
  \A p \in DOMAIN patterns :
    /\ patterns[p].times_matched >= min_occurrences
    /\ patterns[p].confidence_score >= min_pattern_confidence * 100

\* C2: after a run, every pattern the run discovered again, of whatever kind,
\* carries the occurrence count, the confidence and the time of that run.
C2_RediscoveryRefreshesEveryKind ==
  Analyzed =>
    \A u \in Range(analysis_upserts(last.args[1])) :
      \A p \in matching(patterns, u) :
        /\ patterns[p].times_matched = u.times_matched
        /\ patterns[p].confidence_score = ToHundredths(u.confidence)
        /\ patterns[p].last_seen = now

\* the tickets of category c among the analysed ones
InCategory(c) == { t \in last.window : tickets[t].category = c }

\* the words of length >= 3, stop words apart, that occur at least twice in
\* the texts of the tickets ts
RepeatedWords(ts) ==
  LET words == Flatten(List([i \in DOMAIN SetToSeq(ts) |->
                               FindWords(Lower(ticket_text(SetToSeq(ts)[i])))]))
  IN { w \in Range(words) : w \notin Analyzer_stop_words /\ Occurrences(words, w) >= 2 }

\* C3: a category with at least 3 analysed tickets, at least 70% of them
\* RESOLVED, and a keyword occurring twice or more in them has a CATEGORY
\* pattern after the run, with matching terms.
C3_CategoryPatternPersisted ==
  Analyzed =>
    \A c \in DOMAIN categories :
      LET ts == InCategory(c)
          nres == Cardinality({ t \in ts : tickets[t].status = "RESOLVED" })
      IN (/\ Cardinality(ts) >= 3
          /\ 10 * nres >= 7 * Cardinality(ts)
          /\ RepeatedWords(ts) # {})
         => \E p \in DOMAIN patterns :
              /\ patterns[p].pattern_type = "CATEGORY"
              /\ patterns[p].category = c
              /\ patterns[p].matching_keywords # <<>>

\* C5: a run that follows a run over the same unchanged tickets creates no
\* pattern row: as many rows after it as before it, none reported as found,
\* and no two rows of one (kind, key).
C5_SecondRunCreatesNothing ==
  (Analyzed /\ last.again) =>
    /\ Len(patterns) = last.before
    /\ last.result[1] = 0
    /\ NoDuplicatePatterns

\* a second run over tickets whose first run created patterns
C5_Witness == Analyzed /\ last.again /\ Len(patterns) > 0


\* the analysed tickets user u created, and the users that created any
CreatedBy(u) == { t \in last.window : tickets[t].created_by = u }
Creators == { tickets[t].created_by : t \in last.window }

\* C14: a user who created at least max(3, twice the average per user) of the
\* analysed tickets, with a keyword occurring twice or more in them, has a
\* USER pattern after the run, with confidence min(90, 100 * fraction + 30).
C14_UserPatternPersisted ==
  Analyzed =>
    \A u \in Creators :
      LET ts == CreatedBy(u)
          n == Cardinality(ts)
          total == Cardinality(last.window)
          prefix == <<"u","s","e","r","_">> \o Str(u) \o <<"_">>
      IN (/\ n >= 3
          /\ n * Cardinality(Creators) >= 2 * total
          /\ RepeatedWords(ts) # {})
         => \E p \in DOMAIN patterns :
              /\ patterns[p].pattern_type = "USER"
              /\ Len(patterns[p].matching_keywords) > Len(prefix)
              /\ SubSeq(patterns[p].matching_keywords, 1, Len(prefix)) = prefix
              /\ patterns[p].confidence_score
                   = ToHundredths(user_pattern_confidence(n, total))

\* the analysed tickets created on day d of the week
OnDay(d) == { t \in last.window : day_of_week(t) = d }

\* C15: on a day of the week with more than 1.5 times the daily average of
\* the analysed tickets, every category with 3 or more tickets of that day
\* has a TIME pattern of (day, category) after the run.
C15_EveryFrequentCategoryGetsTimePattern ==
  Analyzed =>
    \A d \in Range(DayNames) : \A c \in DOMAIN categories :
      LET ts == OnDay(d)
          tc == { t \in ts : tickets[t].category = c }
      IN (/\ 14 * Cardinality(ts) > 3 * Cardinality(last.window)
          /\ Cardinality(tc) >= 3)
         => \E p \in DOMAIN patterns :
              /\ patterns[p].pattern_type = "TIME"
              /\ patterns[p].matching_keywords = d \o <<"_">> \o categories[c].name

Printer == <<"p","r","i","n","t","e","r">>

\* exactly three tickets analysed, each with the keyword printer, none RESOLVED
ThreeOpenPrinterTickets ==
  /\ Analyzed
  /\ Cardinality(last.window) = 3
  /\ \A t \in last.window :
       /\ Printer \in Analyzer_extract_keywords(ticket_text(t))
       /\ tickets[t].status # "RESOLVED"

\* the KEYWORD rows of printer
PrinterPatterns ==
  { p \in DOMAIN patterns : /\ patterns[p].pattern_type = "KEYWORD"
                            /\ patterns[p].matching_keywords = Printer }

\* C16: after a run over exactly three tickets, each with the keyword printer
\* and none RESOLVED, there is a KEYWORD pattern of printer over 3 tickets
\* with confidence min(95, 100), and the run created it unless it existed.
C16_ThreeOpenPrinterTicketsMakeAPattern ==
  ThreeOpenPrinterTickets =>
    /\ \E p \in PrinterPatterns :
         /\ patterns[p].times_matched = 3
         /\ patterns[p].confidence_score = ConfidenceCap * 100
    /\ last.before = 0 => last.result[1] >= 1

C16_Witness ==
  /\ ThreeOpenPrinterTickets
  /\ last.before = 0
  /\ last.result[1] >= 1
  /\ PrinterPatterns # {}

\* the tickets of the window that carry keyword kw
KeywordGroup(window, kw) ==
  { t \in window : kw \in Analyzer_extract_keywords(ticket_text(t)) }

\* the group of kw in the window is smaller than 3 or its confidence
\* min(95, 100 * size / total + 30 * resolved / size) is below 70
FailsAGate(window, kw) ==
  LET group == KeywordGroup(window, kw)
      n == Cardinality(group)
      nresolved == Cardinality({ t \in group : tickets[t].status = "RESOLVED" })
  IN \/ n < 3
     \/ 100 * n * n + 30 * nresolved * Cardinality(window) < 70 * n * Cardinality(window)

\* C30: a run in which the keyword group of a stored keyword pattern does not
\* clear the occurrence gate or the confidence gate leaves the row of that
\* pattern as it was, and removes no row.
C30_UnqualifiedPatternUntouched ==
  [][last'.op = "analyze" =>
       /\ Len(patterns') >= Len(patterns)
       /\ \A p \in DOMAIN patterns :
            (/\ patterns[p].pattern_type = "KEYWORD"
             /\ FailsAGate(Range(recent_tickets(last'.args[1])),
                           patterns[p].matching_keywords))
            => patterns'[p] = patterns[p]]_vars

\* after a run, a keyword pattern stored before it whose group now fails a
\* gate still carries the count of an earlier, larger group
C30_Witness ==
  /\ Analyzed
  /\ \E p \in DOMAIN patterns :
       /\ p <= last.before
       /\ patterns[p].pattern_type = "KEYWORD"
       /\ patterns[p].is_active
       /\ FailsAGate(last.window, patterns[p].matching_keywords)
       /\ KeywordGroup(last.window, patterns[p].matching_keywords) # {}
       /\ patterns[p].times_matched
            > Cardinality(KeywordGroup(last.window, patterns[p].matching_keywords))
(***************************************************************************)
(* The suggestion engine over a store of tickets, solutions, patterns and  *)
(* application records.                                                     *)
(***************************************************************************)
MaxActive == 10

\* the kinds of solution a store is drawn from
SolutionProfiles ==
  << \* says what the printer ticket says, and worked the one time it was tried
     [title |-> <<"P","r","i","n","t","e","r"," ","o","f","f","l","i","n","e">>, description |-> <<"P","C"," ","o","f","f">>, keywords |-> <<>>,
      category |-> 1, times_suggested |-> 1, times_successful |-> 1, is_active |-> TRUE],
     \* of the same category, on another subject, with more successes
     [title |-> <<"R","e","s","t","a","r","t"," ","s","p","o","o","l","e","r">>, description |-> <<>>, keywords |-> <<>>,
      category |-> 1, times_suggested |-> 3, times_successful |-> 3, is_active |-> TRUE],
     \* counters as create_solutions draws them: times_suggested from 5..50
     \* and times_successful from 2..40, independently
     [title |-> <<"P","r","i","n","t","e","r"," ","o","f","f","l","i","n","e">>, description |-> <<>>, keywords |-> <<"j","a","m">>,
      category |-> 2, times_suggested |-> 5, times_successful |-> 10, is_active |-> TRUE] >>

\* a retired solution, never used
RetiredSolution ==
  [title |-> <<"R","e","p","l","a","c","e"," ","c","a","b","l","e">>, description |-> <<>>, keywords |-> <<>>,
   category |-> None, times_suggested |-> 0, times_successful |-> 0, is_active |-> FALSE]

\* a solution just written, never suggested
NewSolution ==
  [title |-> <<"P","r","i","n","t","e","r"," ","j","a","m">>, description |-> <<>>, keywords |-> <<>>,
   category |-> 1, times_suggested |-> 0, times_successful |-> 0, is_active |-> TRUE]

Copies(row, n) == List([i \in 1..n |-> row])

RECURSIVE Total(_, _)
Total(count, k) == IF k = 0 THEN 0 ELSE count[k] + Total(count, k - 1)

\* the solution tables of at most n rows over the profiles, rows of one
\* profile adjacent, alone or with a retired or a new solution as the newest
\* row
Stores(n) ==
  LET counts == { c \in [DOMAIN SolutionProfiles -> 0..n] :
                    Total(c, Len(SolutionProfiles)) <= n }
      active == { Flatten(List([p \in DOMAIN SolutionProfiles |->
                                  Copies(SolutionProfiles[p], c[p])])) : c \in counts }
  IN active \cup { Append(rows, RetiredSolution) : rows \in active }
            \cup { Append(rows, NewSolution) : rows \in active }

Text3 == [title |-> <<"P","r","i","n","t","e","r"," ","o","f","f","l","i","n","e"," ","a","g","a","i","n">>, description |-> <<>>]
Text4 == [title |-> <<"P","C">>, description |-> <<>>]

\* a printer ticket, a network ticket, an old printer ticket that was solved,
\* and a ticket that says nothing
SuggestTickets ==
  << new_ticket(Text1, 1, 1, "OPEN", Today),
     new_ticket(Text2, 2, 2, "OPEN", Today),
     resolved(new_ticket(Text3, None, 1, "OPEN", Today - 1)),
     new_ticket(Text4, None, 2, "OPEN", Today) >>

\* the store's application records: the newest solution solved the old
\* printer ticket, the oldest solved the network ticket and failed on the
\* old printer ticket
SuggestApplications(n) ==
  IF n = 0 THEN <<>>
  ELSE << application(3, n, "True"), application(2, 1, "True"),
          application(3, 1, "False") >>

\* the store's patterns: a keyword pattern and a weaker category pattern, as
\* the analyzer or the pattern endpoint leaves them
SuggestPatterns(n) ==
  IF n = 0 THEN <<>>
  ELSE << [pattern_type |-> "KEYWORD", matching_keywords |-> <<"p","r","i","n","t","e","r",","," ","j","a","m">>,
           category |-> None, suggested_solutions |-> {n},
           confidence_score |-> 9500, times_matched |-> 3, times_helpful |-> 0,
           last_seen |-> Today, is_active |-> TRUE],
          [pattern_type |-> "CATEGORY", matching_keywords |-> <<>>,
           category |-> 2, suggested_solutions |-> {1, n},
           confidence_score |-> 6500, times_matched |-> 3, times_helpful |-> 0,
           last_seen |-> Today, is_active |-> TRUE] >>

InitSuggest ==
  /\ solutions \in Stores(MaxActive)
  /\ tickets = SuggestTickets
  /\ applications = SuggestApplications(Len(solutions))
  /\ patterns = SuggestPatterns(Len(solutions))
  /\ now = Today
  /\ runs = <<>>
  /\ last = NoCall

NextSuggest == \E t \in DOMAIN tickets, asc \in BOOLEAN : Suggest(t, asc)

SpecSuggest == InitSuggest /\ [][NextSuggest]_vars

Suggested == last.op = "suggest"

\* the solutions of a list of suggestions
SolutionsOf(list) == { list[i].solution : i \in DOMAIN list }

\* C6: every confidence_score suggest_solutions returns lies in [0, 1], and a
\* category-match confidence lies in [0.7, 1.0]
C6_ConfidenceWithinUnitInterval ==
  Suggested =>
    \A i \in DOMAIN last.result :
      LET e == last.result[i]
      IN /\ RLeq(Rat(0, 1), e.confidence_score)
         /\ RLeq(e.confidence_score, Rat(1, 1))
         /\ e.suggested_by = "category_match" => RLeq(Rat(7, 10), e.confidence_score)

\* C7: no solution is returned twice, and the entry returned for a solution
\* is one of the candidates the strategies produced for it, reason and method
\* included, and no candidate for that solution has a higher confidence
C7_BestCandidateKeptOnce ==
  Suggested =>
    LET res == last.result
        cands == strategy_suggestions(last.args[1], last.args[2])
    IN /\ \A i, j \in DOMAIN res : res[i].solution = res[j].solution => i = j
       /\ \A i \in DOMAIN res :
            /\ \E k \in DOMAIN cands : cands[k] = res[i]
            /\ \A k \in DOMAIN cands :
                 cands[k].solution = res[i].solution
                   => RLeq(cands[k].confidence_score, res[i].confidence_score)

\* a solution was proposed by two strategies with different confidences, and
\* was returned
C7_Witness ==
  /\ Suggested
  /\ LET cands == strategy_suggestions(last.args[1], last.args[2])
     IN \E k, m \in DOMAIN cands :
          /\ cands[k].solution = cands[m].solution
          /\ RLess(cands[k].confidence_score, cands[m].confidence_score)
          /\ cands[k].suggested_by # cands[m].suggested_by
          /\ cands[m] \in Range(last.result)

\* S is active and has a successful application, and ticket t has its
\* category and its keyword set
SameAsTicket(S, t) ==
  /\ solutions[S].is_active
  /\ \E a \in DOMAIN applications :
       applications[a].solution = S /\ applications[a].was_successful = "True"
  /\ solutions[S].category = tickets[t].category
  /\ solution_keywords(S) = Engine_extract_keywords(ticket_text(t))

\* C8 as stated: such a solution is always in the list returned for the ticket
C8_MatchingSolutionSurfaces ==
  Suggested =>
    \A S \in DOMAIN solutions :
      SameAsTicket(S, last.args[1]) => S \in SolutionsOf(last.result)

\* the active solutions of ticket t's category
ActiveInCategory(t) ==
  { s \in DOMAIN solutions :
      solutions[s].is_active /\ solutions[s].category = tickets[t].category }

\* the active solutions that share a keyword with ticket t
ActiveSharingKeyword(t) ==
  { s \in DOMAIN solutions :
      /\ solutions[s].is_active
      /\ solution_keywords(s) \cap Engine_extract_keywords(ticket_text(t)) # {} }

\* neither the cut of a strategy at 5 nor the cut of the list at 10 can drop
\* a solution that matches ticket t
NothingCut(t) ==
  /\ Len(solutions) <= SuggestionTop
  /\ \/ tickets[t].category # None /\ Cardinality(ActiveInCategory(t)) <= CategoryTop
     \/ /\ Engine_extract_keywords(ticket_text(t)) # {}
        /\ Cardinality(ActiveSharingKeyword(t)) <= KeywordTop

\* C8, amended: such a solution is in the list returned for the ticket when
\* the store holds at most 10 solutions and either the ticket has a category
\* that at most 5 active solutions share, or the ticket has keywords and at
\* most 5 active solutions share one of them
C8_MatchingSolutionSurfacesWhenNothingCut ==
  Suggested =>
    \A S \in DOMAIN solutions :
      SameAsTicket(S, last.args[1]) /\ NothingCut(last.args[1])
        => S \in SolutionsOf(last.result)

\* the matching solution was returned from a store where six active
\* solutions share a keyword with the ticket
C8_Witness ==
  /\ Suggested
  /\ NothingCut(last.args[1])
  /\ Cardinality(ActiveSharingKeyword(last.args[1])) > KeywordTop
  /\ \E S \in DOMAIN solutions :
       SameAsTicket(S, last.args[1]) /\ S \in SolutionsOf(last.result)

\* C9: suggest_solutions returns at most 10 entries
C9_AtMostTenSuggestions == Suggested => Len(last.result) <= SuggestionTop

\* the strategies proposed more than 10 different solutions, 10 were returned
C9_Witness ==
  /\ Suggested
  /\ Cardinality(SolutionsOf(strategy_suggestions(last.args[1], last.args[2])))
       > SuggestionTop
  /\ Len(last.result) = SuggestionTop

\* C10: of two adjacent entries of the list returned, the earlier has a
\* confidence greater than or equal to the later
C10_SortedByConfidence ==
  Suggested =>
    \A i \in 1..(Len(last.result) - 1) :
      RLeq(last.result[i + 1].confidence_score, last.result[i].confidence_score)

\* the merged candidates were not in order of confidence before the sort
C10_Witness ==
  /\ Suggested
  /\ LET merged == unique_suggestions(strategy_suggestions(last.args[1], last.args[2]))
     IN \E i \in 1..(Len(merged) - 1) :
          RLess(merged[i].confidence_score, merged[i + 1].confidence_score)
  /\ \E i \in 1..(Len(last.result) - 1) :
       RLess(last.result[i + 1].confidence_score, last.result[i].confidence_score)

\* C13: a solution never suggested has success rate 0, and no score of a
\* candidate of the strategies comes out of a division by zero
C13_NeverSuggestedScoresWithoutDivision ==
  /\ \A s \in DOMAIN solutions :
       solutions[s].times_suggested = 0 => success_rate(s) = Rat(0, 1)
  /\ Suggested =>
       LET cands == strategy_suggestions(last.args[1], last.args[2])
       IN \A k \in DOMAIN cands : cands[k].confidence_score # ZeroDivisionError

\* an active solution never suggested was scored by the category and by the
\* keyword strategy
C13_Witness ==
  /\ Suggested
  /\ LET cands == strategy_suggestions(last.args[1], last.args[2])
     IN \E k, m \in DOMAIN cands :
          /\ cands[k].solution = cands[m].solution
          /\ solutions[cands[k].solution].times_suggested = 0
          /\ cands[k].suggested_by = "category_match"
          /\ cands[m].suggested_by = "keyword_match"


\* C18: a call of suggest_solutions leaves every solution's counters and
\* every ticket, pattern and application record as they were.
C18_SuggestIsReadOnly ==
  [][last'.op = "suggest" => UNCHANGED <<tickets, solutions, applications, patterns>>]_vars

\* a call has returned solutions that carry counters, some of them found
\* through the store's patterns or applications
C18_Witness ==
  /\ Suggested
  /\ \E i, j \in DOMAIN last.result :
       /\ solutions[last.result[i].solution].times_suggested > 0
       /\ last.result[i].suggested_by = "category_match"
       /\ last.result[j].suggested_by \in {"pattern_match", "historical_match"}

\* ticket t has no category, and its keywords share no term with a solution,
\* with a pattern's keyword list or with a ticket a solution was applied to
NothingInCommon(t) ==
  LET ticket_keywords == Engine_extract_keywords(ticket_text(t))
  IN /\ tickets[t].category = None
     /\ \A s \in DOMAIN solutions : ticket_keywords \cap solution_keywords(s) = {}
     /\ \A p \in DOMAIN patterns : ticket_keywords \cap pattern_keywords(p) = {}
     /\ \A a \in DOMAIN applications :
          ticket_keywords
            \cap Engine_extract_keywords(ticket_text(applications[a].ticket)) = {}

\* C19: for a ticket with no category and nothing in common with the store,
\* no strategy yields a candidate and suggest_solutions returns the empty list.
C19_NothingInCommonYieldsEmptyList ==
  (Suggested /\ NothingInCommon(last.args[1])) =>
    /\ strategy_suggestions(last.args[1], last.args[2]) = <<>>
    /\ last.result = <<>>

\* such a call against a store with active solutions, patterns that carry
\* solutions and successful applications
C19_Witness ==
  /\ Suggested
  /\ NothingInCommon(last.args[1])
  /\ last.result = <<>>
  /\ \E s \in DOMAIN solutions : solutions[s].is_active
  /\ \E p \in DOMAIN patterns :
       patterns[p].category = None /\ patterns[p].suggested_solutions # {}
  /\ \E a \in DOMAIN applications : applications[a].was_successful = "True"

\* C20: every solution of the returned list is active, whichever strategy
\* produced the entry.
C20_EverySuggestedSolutionIsActive ==
  Suggested =>
    \A i \in DOMAIN last.result : solutions[last.result[i].solution].is_active

\* the pairs (k, m) of a category candidate and a keyword candidate for one
\* solution among the candidates cands
CategoryAndKeyword(cands) ==
  { km \in (DOMAIN cands) \X (DOMAIN cands) :
      /\ cands[km[1]].suggested_by = "category_match"
      /\ cands[km[2]].suggested_by = "keyword_match"
      /\ cands[km[1]].solution = cands[km[2]].solution }

\* the entry of solution s in the merged list
MergedEntry(merged, s) == merged[CHOOSE i \in DOMAIN merged : merged[i].solution = s]

\* C29 as stated: for a solution the category and the keyword strategy both
\* produce, the keyword score is at most the category score and the merged
\* entry is the category_match one.
C29_CategoryEntryAlwaysKept ==
  Suggested =>
    LET cands == strategy_suggestions(last.args[1], last.args[2])
        merged == unique_suggestions(cands)
    IN \A km \in CategoryAndKeyword(cands) :
         /\ RLeq(cands[km[2]].confidence_score, cands[km[1]].confidence_score)
         /\ MergedEntry(merged, cands[km[1]].solution).suggested_by = "category_match"

\* C29, amended: the keyword score is at most the category score and the
\* merged entry is never the keyword_match one; it is the category_match one
\* unless the pattern or the historical strategy scored the solution
\* strictly higher.
C29_KeywordNeverReplacesCategory ==
  Suggested =>
    LET cands == strategy_suggestions(last.args[1], last.args[2])
        merged == unique_suggestions(cands)
    IN \A km \in CategoryAndKeyword(cands) :
         LET entry == MergedEntry(merged, cands[km[1]].solution)
         IN /\ RLeq(cands[km[2]].confidence_score, cands[km[1]].confidence_score)
            /\ entry.suggested_by # "keyword_match"
            /\ \/ entry = cands[km[1]]
               \/ /\ entry.suggested_by \in {"pattern_match", "historical_match"}
                  /\ RLess(cands[km[1]].confidence_score, entry.confidence_score)

\* both strategies produced a solution, the keyword score strictly lower,
\* and the category entry was kept
C29_Witness ==
  /\ Suggested
  /\ LET cands == strategy_suggestions(last.args[1], last.args[2])
         merged == unique_suggestions(cands)
     IN \E km \in CategoryAndKeyword(cands) :
          /\ RLess(cands[km[2]].confidence_score, cands[km[1]].confidence_score)
          /\ MergedEntry(merged, cands[km[1]].solution) = cands[km[1]]
(***************************************************************************)
(* Two analyzer runs at once (two requests to analyze_patterns, or the     *)
(* command beside a request).  get_or_create is a SELECT followed, when no  *)
(* row was found, by an INSERT; TicketPattern declares no unique            *)
(* constraint, so the store lets another run's statements come in between.  *)
(***************************************************************************)
MaxConcurrentWindow == 3
MaxStarts == 3
DefaultDays == 30
Runs == {1, 2}

IdleRun == [pc |-> "idle", todo |-> <<>>, found |-> <<>>, created |-> 0, analyzed |-> 0,
            starts |-> 0]

\* the run reads the window and works out the get_or_create calls it makes
StartRun(p) ==
  /\ runs[p].pc \in {"idle", "done", "failed"}
  /\ runs[1].starts + runs[2].starts < MaxStarts
  /\ runs' = [runs EXCEPT ![p] = [pc |-> "get", todo |-> analysis_upserts(DefaultDays),
                                  found |-> <<>>, created |-> 0,
                                  analyzed |-> Len(recent_tickets(DefaultDays)),
                                  starts |-> runs[p].starts + 1]]
  /\ UNCHANGED <<tickets, solutions, applications, patterns, now, last>>

\* the SELECT of get_or_create
GetPattern(p) ==
  /\ runs[p].pc = "get"
  /\ runs[p].todo # <<>>
  /\ LET u == Head(runs[p].todo)
         m == matching(patterns, u)
     IN IF Cardinality(m) > 1
          THEN /\ runs' = [runs EXCEPT ![p].pc = "failed"]
               /\ last' = [NoCall EXCEPT !.op = "analyze", !.args = <<DefaultDays>>,
                                         !.result = <<"MultipleObjectsReturned">>]
        ELSE IF m = {}
          THEN /\ runs' = [runs EXCEPT ![p].pc = "create"]
               /\ UNCHANGED last
        ELSE LET id == CHOOSE q \in m : TRUE
             IN /\ runs' = IF u.updates
                             THEN [runs EXCEPT ![p].pc = "save",
                                               ![p].found = <<id, patterns[id]>>]
                             ELSE [runs EXCEPT ![p].todo = Tail(@)]
                /\ UNCHANGED last
  /\ UNCHANGED <<tickets, solutions, applications, patterns, now>>

\* the INSERT of get_or_create, and the created branch
CreatePattern(p) ==
  /\ runs[p].pc = "create"
  /\ patterns' = Append(patterns, new_pattern(Head(runs[p].todo), now))
  /\ runs' = [runs EXCEPT ![p].pc = "get", ![p].todo = Tail(@), ![p].created = @ + 1]
  /\ UNCHANGED <<tickets, solutions, applications, now, last>>

\* pattern.save() of the found branch: the row as it was read, refreshed
SavePattern(p) ==
  /\ runs[p].pc = "save"
  /\ patterns' = [patterns EXCEPT ![runs[p].found[1]] =
                    updated_pattern(runs[p].found[2], Head(runs[p].todo), now)]
  /\ runs' = [runs EXCEPT ![p].pc = "get", ![p].todo = Tail(@), ![p].found = <<>>]
  /\ UNCHANGED <<tickets, solutions, applications, now, last>>

\* analyze_recent_tickets returns its counts
FinishRun(p) ==
  /\ runs[p].pc = "get"
  /\ runs[p].todo = <<>>
  /\ runs' = [runs EXCEPT ![p].pc = "done"]
  /\ last' = [NoCall EXCEPT !.op = "analyze", !.args = <<DefaultDays>>,
                            !.result = <<runs[p].created, runs[p].analyzed>>,
                            !.window = Range(recent_tickets(DefaultDays)),
                            !.before = Len(patterns) - runs[p].created]
  /\ UNCHANGED <<tickets, solutions, applications, patterns, now>>

InitConcurrent ==
  /\ tickets \in Windows(MaxConcurrentWindow)
  /\ solutions = <<Solution1>>
  /\ applications = SelectSeq(<<application(1, 1, "True"), application(2, 1, "True")>>,
                              LAMBDA a : a.ticket <= Len(tickets))
  /\ patterns = <<>>
  /\ now = Today
  /\ runs = [p \in Runs |-> IdleRun]
  /\ last = NoCall

NextConcurrent ==
  \E p \in Runs :
    \/ StartRun(p)
    \/ GetPattern(p)
    \/ CreatePattern(p)
    \/ SavePattern(p)
    \/ FinishRun(p)

SpecConcurrent == InitConcurrent /\ [][NextConcurrent]_vars

\* C4: whatever the interleaving of two runs over one window, no two pattern
\* rows have the same kind and the same distinguishing key
C4_ConcurrentRunsLeaveNoDuplicates ==
  \A p, q \in DOMAIN patterns : PatternKey(patterns[p]) = PatternKey(patterns[q]) => p = q

(***************************************************************************)
(* The store as the sample-data command and the apply_solution endpoint     *)
(* write it.                                                                *)
(***************************************************************************)
MaxSolutions == 2
MaxApplications == 2

\* random.randint(5, 50) and random.randint(2, 40): the ends of each range
SampleSuggested == {5, 50}
SampleSuccessful == {2, 40}

Outcomes == {"True", "False", "None"}

\* Command.create_solutions: one Solution.objects.create, the two counters
\* drawn independently
create_solutions(suggested, successful) ==
  /\ Len(solutions) < MaxSolutions
  /\ solutions' = Append(solutions, [Solution1 EXCEPT !.times_suggested = suggested,
                                                      !.times_successful = successful])
  /\ last' = [NoCall EXCEPT !.op = "create_solutions", !.args = <<suggested, successful>>]
  /\ UNCHANGED <<tickets, applications, patterns, now, runs>>

\* TicketSolution.save of a new record: the counters of the applied solution
TicketSolution_save(table, s, ok) ==
  [table EXCEPT ![s].times_suggested = @ + 1,
                ![s].times_successful = IF ok = "True" THEN @ + 1 ELSE @]

\* TicketViewSet.apply_solution: get_or_create of the application record,
\* whose save advances the counters when the record is new; a record found
\* has its outcome overwritten
ApplySolution(t, s, ok) ==
  LET found == { a \in DOMAIN applications :
                   applications[a].ticket = t /\ applications[a].solution = s }
  IN /\ IF found = {}
          THEN /\ Len(applications) < MaxApplications
               /\ applications' = Append(applications, application(t, s, ok))
               /\ solutions' = TicketSolution_save(solutions, s, ok)
          ELSE /\ applications' = [a \in DOMAIN applications |->
                                     IF a \in found
                                       THEN [applications[a] EXCEPT !.was_successful = ok]
                                       ELSE applications[a]]
               /\ UNCHANGED solutions
     /\ last' = [NoCall EXCEPT !.op = "apply_solution", !.args = <<t, s, ok>>,
                               !.result = <<found = {}>>]
     /\ UNCHANGED <<tickets, patterns, now, runs>>

Init ==
  /\ tickets = <<SuggestTickets[1], SuggestTickets[2]>>
  /\ solutions = <<>>
  /\ applications = <<>>
  /\ patterns = <<>>
  /\ now = Today
  /\ runs = <<>>
  /\ last = NoCall

Next ==
  \/ \E suggested \in SampleSuggested, successful \in SampleSuccessful :
       create_solutions(suggested, successful)
  \/ \E t \in DOMAIN tickets, s \in DOMAIN solutions, ok \in Outcomes :
       ApplySolution(t, s, ok)

Spec == Init /\ [][Next]_vars

\* C11: in every state of the store, every solution has
\* times_successful <= times_suggested
C11_SuccessfulNeverExceedsSuggested ==
  \A s \in DOMAIN solutions :
    solutions[s].times_successful <= solutions[s].times_suggested

\* C12: the success rate of a solution that was suggested is at most 100
C12_SuccessRateCappedAt100 ==
  \A s \in DOMAIN solutions :
    solutions[s].times_suggested > 0 => RLeq(success_rate(s), Rat(100, 1))


(***************************************************************************)
(* Three printer tickets, analysed again while solutions are applied to    *)
(* them.                                                                    *)
(***************************************************************************)
InitRediscover ==
  /\ tickets = <<TicketProfiles[1], TicketProfiles[2], TicketProfiles[5]>>
  /\ solutions = <<Solution1>>
  /\ applications = <<>>
  /\ patterns = <<>>
  /\ now = Today
  /\ runs = <<>>
  /\ last = NoCall

NextRediscover ==
  \/ \E days \in AnalyzeDays : Analyze(days)
  \/ \E t \in DOMAIN tickets, s \in DOMAIN solutions, ok \in {"True", "False"} :
       ApplySolution(t, s, ok)

SpecRediscover == InitRediscover /\ [][NextRediscover]_vars

\* the KEYWORD rows a run over the last days finds again, each with the
\* get_or_create call that finds it
Rediscovered(days) ==
  { <<p, u>> \in (DOMAIN patterns) \X Range(keyword_upserts(recent_tickets(days))) :
      p \in matching(patterns, u) }

\* C17: a run leaves the associated solutions of every keyword pattern it
\* finds again exactly as they were, whatever solutions are now successful
\* on two or more tickets of the keyword's group.
C17_RediscoveryKeepsSolutions ==
  [][\A days \in AnalyzeDays :
       (last'.op = "analyze" /\ Analyze(days)) =>
         \A pu \in Rediscovered(days) :
           patterns'[pu[1]].suggested_solutions = patterns[pu[1]].suggested_solutions]_vars

\* a run has found a keyword pattern again whose solutions differ from the
\* solutions now common to the keyword's tickets
C17_Witness ==
  /\ Analyzed
  /\ \E pu \in Rediscovered(last.args[1]) :
       /\ pu[1] <= last.before
       /\ patterns[pu[1]].times_matched = pu[2].times_matched
       /\ patterns[pu[1]].suggested_solutions # pu[2].solutions

(***************************************************************************)
(* The keyword extractors, applied to the text of a ticket                  *)
(***************************************************************************)
MaxWords == 3

\* the pieces a text is written from: capitals, a stop word of both lists, a
\* stop word of one list, a short word, a word with a digit, punctuation
ExtractWords ==
  { <<"T","h","e">>,
    <<"P","r","i","n","t","e","r">>,
    <<"p","r","i","n","t","e","r">>,
    <<"c","a","n","t">>,
    <<"P","C">>,
    <<"j","a","m","2">>,
    <<"o","f","f","-","l","i","n","e",",">> }

\* the texts of at most n pieces, a blank between two pieces
ExtractTexts(n) ==
  { Join(<<" ">>, pieces) : pieces \in UNION { [1..k -> ExtractWords] : k \in 0..n } }

\* list(set(keywords)) of the engine, of the analyzer, and of the engine on
\* its own result joined with blanks
extract_keywords(text) ==
  << SetToSeq(Engine_extract_keywords(text)),
     SetToSeq(Analyzer_extract_keywords(text)),
     SetToSeq(Engine_extract_keywords(
                Join(<<" ">>, SetToSeq(Engine_extract_keywords(text))))) >>

\* both extractors called on f"{ticket.title} {ticket.description}"
ExtractKeywords(t) ==
  /\ last' = [NoCall EXCEPT !.op = "extract_keywords", !.args = <<t>>,
                            !.result = extract_keywords(ticket_text(t))]
  /\ UNCHANGED <<tickets, solutions, applications, patterns, now, runs>>

InitExtract ==
  /\ tickets \in { <<new_ticket([title |-> text, description |-> <<>>], None, 1, "OPEN", Today)>> :
                     text \in ExtractTexts(MaxWords) }
  /\ solutions = <<>>
  /\ applications = <<>>
  /\ patterns = <<>>
  /\ now = Today
  /\ runs = <<>>
  /\ last = NoCall

NextExtract == \E t \in DOMAIN tickets : ExtractKeywords(t)

SpecExtract == InitExtract /\ [][NextExtract]_vars

Extracted == last.op = "extract_keywords"

\* C21: for every text, the engine's extractor and the analyzer's extractor
\* return the same set of terms.
C21_ExtractorsAgree ==
  Extracted => Range(last.result[1]) = Range(last.result[2])

\* C22: every term the engine's extractor returns is a word of lowercase
\* letters, at least 3 of them, that is not an engine stop word, and the
\* returned list holds no term twice.
C22_TermsAreLowercaseWordsOnce ==
  Extracted =>
    LET terms == last.result[1]
    IN /\ \A i \in DOMAIN terms :
            /\ Len(terms[i]) >= 3
            /\ \A k \in DOMAIN terms[i] : terms[i][k] \in Range(LowerLetters)
            /\ terms[i] \notin Engine_stop_words
       /\ \A i, j \in DOMAIN terms : terms[i] = terms[j] => i = j

\* a text with capitals, a stop word and a repeated word gave two terms
C22_Witness ==
  /\ Extracted
  /\ Len(last.result[1]) = 2
  /\ \E i, j \in DOMAIN tickets[last.args[1]].title :
       /\ tickets[last.args[1]].title[i] \in Range(UpperLetters)
       /\ tickets[last.args[1]].title[j] \in Digits

\* C23: the engine's extractor, applied to its own terms joined with blanks,
\* returns the same set of terms.
C23_ExtractIsIdempotent ==
  Extracted => Range(last.result[3]) = Range(last.result[1])

\* a text that is not its own extraction: it lost a piece and kept terms
C23_Witness ==
  /\ Extracted
  /\ last.result[1] # <<>>
  /\ Range(last.result[3]) = Range(last.result[1])
  /\ Join(<<" ">>, last.result[1]) # tickets[last.args[1]].title
  /\ Len(Join(<<" ">>, last.result[1])) < Len(tickets[last.args[1]].title)

(***************************************************************************)
(* Application records written through the endpoint and written directly   *)
(***************************************************************************)
\* two tickets and two solutions that were never suggested
InitApply ==
  /\ tickets = <<SuggestTickets[1], SuggestTickets[2]>>
  /\ solutions = <<NewSolution, NewSolution>>
  /\ applications = <<>>
  /\ patterns = <<>>
  /\ now = Today
  /\ runs = <<>>
  /\ last = NoCall

NextApply ==
  \E t \in DOMAIN tickets, s \in DOMAIN solutions, ok \in Outcomes : ApplySolution(t, s, ok)

SpecApply == InitApply /\ [][NextApply]_vars

\* the application records of solution s
ApplicationsOf(s) == { a \in DOMAIN applications : applications[a].solution = s }

\* C24: after any sequence of apply_solution calls, times_suggested of each
\* solution is the number of its application records and times_successful
\* the number of those whose outcome is successful.
C24_CountersMatchRecords ==
  \A s \in DOMAIN solutions :
    /\ solutions[s].times_suggested = Cardinality(ApplicationsOf(s))
    /\ solutions[s].times_successful
         = Cardinality({ a \in ApplicationsOf(s) : applications[a].was_successful = "True" })

\* TicketSolution.objects.create(ticket, solution, was_successful): save
\* advances and saves the solution's counters, then inserts the record; the
\* insert of a second record of one (ticket, solution) raises IntegrityError
\* (unique_together) after the counters were saved
CreateTicketSolution(t, s, ok) ==
  LET found == { a \in DOMAIN applications :
                   applications[a].ticket = t /\ applications[a].solution = s }
  IN /\ solutions[s].times_suggested <= MaxApplications
     /\ found = {} => Len(applications) < MaxApplications
     /\ solutions' = TicketSolution_save(solutions, s, ok)
     /\ applications' = IF found = {} THEN Append(applications, application(t, s, ok))
                        ELSE applications
     /\ last' = [NoCall EXCEPT !.op = "create", !.args = <<t, s, ok>>,
                               !.result = IF found = {} THEN <<"created">>
                                          ELSE <<"IntegrityError">>]
     /\ UNCHANGED <<tickets, patterns, now, runs>>

NextCreate ==
  \E t \in DOMAIN tickets, s \in DOMAIN solutions, ok \in Outcomes :
    CreateTicketSolution(t, s, ok)

SpecCreate == InitApply /\ [][NextCreate]_vars

\* C25: a creation that fails because a record of the same (ticket,
\* solution) exists leaves the counters of the solution unchanged.
C25_FailedCreationKeepsCounters ==
  [][(last'.op = "create" /\ last'.result = <<"IntegrityError">>)
       => solutions' = solutions]_vars

(***************************************************************************)
(* The life of a ticket: status changes saved through Ticket.save and the   *)
(* admin's bulk updates                                                     *)
(***************************************************************************)
MaxDays == 2
MaxTickets == 1

STATUS_CHOICES == {"OPEN", "IN_PROGRESS", "WAITING_USER", "RESOLVED", "CLOSED"}

Ticket_save_AlwaysStamps(row, at) ==
  LET stamped == IF row.status = "RESOLVED" THEN [row EXCEPT !.resolved_at = at] ELSE row
      timed == IF stamped.resolved_at # None /\ stamped.created_at # None
                  /\ stamped.resolution_time_minutes \in {None, 0}
                 THEN [stamped EXCEPT !.resolution_time_minutes =
                                        (stamped.resolved_at - stamped.created_at) * 24 * 60]
                 ELSE stamped
  IN IF timed.status = "CLOSED" /\ timed.closed_at = None
       THEN [timed EXCEPT !.closed_at = at] ELSE timed

\* Ticket.save at time at: resolved_at on the first save as RESOLVED, the
\* resolution time while it is unset or 0, closed_at on the first save as
\* CLOSED; times are counted in days
Ticket_save(row, at) ==
  LET stamped == IF row.status = "RESOLVED" /\ row.resolved_at = None
                   THEN [row EXCEPT !.resolved_at = at] ELSE row
      timed == IF stamped.resolved_at # None /\ stamped.created_at # None
                  /\ stamped.resolution_time_minutes \in {None, 0}
                 THEN [stamped EXCEPT !.resolution_time_minutes =
                                        (stamped.resolved_at - stamped.created_at) * 24 * 60]
                 ELSE stamped
  IN IF timed.status = "CLOSED" /\ timed.closed_at = None
       THEN [timed EXCEPT !.closed_at = at] ELSE timed

\* TicketViewSet.change_status: a valid status is set and saved
change_status(t, new_status) ==
  /\ new_status \in STATUS_CHOICES
  /\ tickets' = [tickets EXCEPT ![t] = Ticket_save([@ EXCEPT !.status = new_status], now)]
  /\ last' = [NoCall EXCEPT !.op = "change_status", !.args = <<t, new_status>>,
                            !.result = <<tickets[t].status>>]
  /\ UNCHANGED <<solutions, applications, patterns, now, runs>>

\* TicketAdmin.mark_resolved: queryset.update(status='RESOLVED')
mark_resolved(queryset) ==
  /\ tickets' = [t \in DOMAIN tickets |->
                   IF t \in queryset THEN [tickets[t] EXCEPT !.status = "RESOLVED"]
                   ELSE tickets[t]]
  /\ last' = [NoCall EXCEPT !.op = "mark_resolved", !.args = <<queryset>>,
                            !.result = <<Cardinality(queryset)>>]
  /\ UNCHANGED <<solutions, applications, patterns, now, runs>>

\* TicketAdmin.mark_closed: queryset.update(status='CLOSED')
mark_closed(queryset) ==
  /\ tickets' = [t \in DOMAIN tickets |->
                   IF t \in queryset THEN [tickets[t] EXCEPT !.status = "CLOSED"]
                   ELSE tickets[t]]
  /\ last' = [NoCall EXCEPT !.op = "mark_closed", !.args = <<queryset>>,
                            !.result = <<Cardinality(queryset)>>]
  /\ UNCHANGED <<solutions, applications, patterns, now, runs>>

\* a day passes
Tick ==
  /\ now < Today + MaxDays
  /\ now' = now + 1
  /\ UNCHANGED <<tickets, solutions, applications, patterns, runs, last>>

\* open tickets created today
InitTicket ==
  /\ tickets \in { [i \in 1..n |-> new_ticket(Text1, 1, 1, "OPEN", Today)] : n \in 1..MaxTickets }
  /\ solutions = <<>>
  /\ applications = <<>>
  /\ patterns = <<>>
  /\ now = Today
  /\ runs = <<>>
  /\ last = NoCall

NextTicket ==
  \/ \E t \in DOMAIN tickets, new_status \in STATUS_CHOICES : change_status(t, new_status)
  \/ \E queryset \in SUBSET DOMAIN tickets : mark_resolved(queryset)
  \/ \E queryset \in SUBSET DOMAIN tickets : mark_closed(queryset)
  \/ Tick

SpecTicket == InitTicket /\ [][NextTicket]_vars

\* C26: in every state, a ticket whose status is RESOLVED has resolved_at set.
C26_ResolvedHasResolvedAt ==
  \A t \in DOMAIN tickets : tickets[t].status = "RESOLVED" => tickets[t].resolved_at # None

\* C27: a status change saved through Ticket.save never changes or clears a
\* resolved_at that is set, nor a resolution time that is set.
C27_FirstResolutionIsKept ==
  [][last'.op = "change_status" =>
       \A t \in DOMAIN tickets :
         /\ tickets[t].resolved_at # None => tickets'[t].resolved_at = tickets[t].resolved_at
         /\ tickets[t].resolution_time_minutes # None =>
              tickets'[t].resolution_time_minutes = tickets[t].resolution_time_minutes]_vars

\* a ticket that was resolved on an earlier day and was not RESOLVED before
\* this call has been resolved again, and keeps the earlier day
C27_Witness ==
  /\ last.op = "change_status"
  /\ last.args[2] = "RESOLVED"
  /\ last.result[1] \in {"OPEN", "IN_PROGRESS"}
  /\ tickets[last.args[1]].resolved_at # None
  /\ tickets[last.args[1]].resolved_at < now
  /\ tickets[last.args[1]].resolution_time_minutes
       = (tickets[last.args[1]].resolved_at - Today) * 24 * 60

(***************************************************************************)
(* Suggestions from a store whose patterns share solutions                  *)
(***************************************************************************)
\* a keyword pattern and a category pattern, each with any of the store's
\* solutions attached
SharedPatterns(nsolutions) ==
  { << [pattern_type |-> "KEYWORD", matching_keywords |-> <<"p","r","i","n","t","e","r",","," ","j","a","m">>,
        category |-> None, suggested_solutions |-> a,
        confidence_score |-> score, times_matched |-> 3, times_helpful |-> 0,
        last_seen |-> Today, is_active |-> TRUE],
       [pattern_type |-> "CATEGORY", matching_keywords |-> <<>>,
        category |-> 1, suggested_solutions |-> b,
        confidence_score |-> 6500, times_matched |-> 3, times_helpful |-> 0,
        last_seen |-> Today, is_active |-> TRUE] >> :
      a \in SUBSET (1..nsolutions), b \in SUBSET (1..nsolutions), score \in {6500, 9500} }

InitPatterns ==
  /\ tickets = <<SuggestTickets[1], SuggestTickets[2]>>
  /\ solutions = SolutionProfiles
  /\ applications = <<>>
  /\ patterns \in SharedPatterns(Len(solutions))
  /\ now = Today
  /\ runs = <<>>
  /\ last = NoCall

SpecPatterns == InitPatterns /\ [][NextSuggest]_vars

\* the patterns find_pattern_matches takes for the ticket of the last call
MatchingPatterns ==
  LET t == last.args[1]
      ticket_keywords == Engine_extract_keywords(ticket_text(t))
  IN { p \in DOMAIN patterns :
         /\ patterns[p].is_active
         /\ patterns[p].confidence_score >= PatternMatchMinConfidence
         /\ \/ ticket_keywords \cap pattern_keywords(p) # {}
            \/ category_match(p, tickets[t].category) }

\* the candidates of the pattern strategy in the last call
PatternCandidates ==
  find_pattern_matches(Engine_extract_keywords(ticket_text(last.args[1])),
                       tickets[last.args[1]].category, last.args[2])

\* C28: when 3 or more distinct solutions are attached to the patterns that
\* match the ticket, the pattern strategy contributes 3 candidates for 3
\* distinct solutions.
C28_PatternCandidatesAreDistinct ==
  (Suggested
     /\ Cardinality(UNION { patterns[p].suggested_solutions : p \in MatchingPatterns }) >= 3)
  => /\ Len(PatternCandidates) = 3
     /\ \A i, j \in DOMAIN PatternCandidates :
          PatternCandidates[i].solution = PatternCandidates[j].solution => i = j
=============================================================================
